---- MODULE Spec2Model ----
(***************************************************************************)
(* PathMatcher (src/src/lib/util/PathMatcher.ts) of sfdx-scanner.          *)
(*                                                                         *)
(* A PathMatcher is built once from a list of target patterns (glob        *)
(* strings, negated glob strings, advanced patterns that nest a pattern    *)
(* list and carry a caller-supplied asynchronous predicate).  Queries are  *)
(* asynchronous: the model follows every promise of one query, one step    *)
(* per resumption of an awaiting function, with the caller-supplied        *)
(* predicates completing (or not) under the environment's control.         *)
(*                                                                         *)
(* Strings are sequences of one-character strings, so that normalisation   *)
(* and glob matching are computed character by character.                  *)
(***************************************************************************)
EXTENDS Naturals, Sequences, FiniteSets

VARIABLES
    matcher,    \* this.matcher: the matching function built by the constructor
    callKind,   \* "none" | "single" (pathMatchesPatterns) | "filter" (filterPathsByPatterns)
    targets,    \* the query's argument: the original path strings, in order
    listSt,     \* [path index, matcher node] -> state of the matching function's promise
    advSt,      \* [path index, advanced node] -> position of the advanced matcher's function
    predCalls,  \* [path index, advanced node] -> state of the call of pattern.advancedMatcher
    result      \* the promise the query returned to its caller

vars == <<matcher, callKind, targets, listSt, advSt, predCalls, result>>

----------------------------------------------------------------------------
(* Bounds of the model.                                                    *)

\* most advanced patterns in the list handed to the constructor
MaxAdvanced == 2
\* longest batch handed to filterPathsByPatterns
MaxBatch == 2
\* most advanced matchers one query calls, over all its paths
MaxEvals == 4

----------------------------------------------------------------------------
(* normalize-path, as imported at PathMatcher.ts:3 and applied to every    *)
(* string pattern (line 59) and every queried path (lines 102, 119).       *)

IsSep(c) == c = "/" \/ c = "\\"

RECURSIVE DropSeps(_)
DropSeps(s) ==
    IF s # <<>> /\ IsSep(Head(s)) THEN DropSeps(Tail(s)) ELSE s

\* path.split(/[/\\]+/): the segments between maximal runs of separators
RECURSIVE SplitSeps(_)
SplitSeps(s) ==
    IF s = <<>> THEN << <<>> >>
    ELSE IF IsSep(Head(s)) THEN << <<>> >> \o SplitSeps(DropSeps(s))
    ELSE LET r == SplitSeps(Tail(s))
         IN  << <<Head(s)>> \o r[1] >> \o Tail(r)

\* segs.join('/')
RECURSIVE JoinSegs(_)
JoinSegs(segs) ==
    IF segs = <<>> THEN <<>>
    ELSE IF Len(segs) = 1 THEN segs[1]
    ELSE segs[1] \o <<"/">> \o JoinSegs(Tail(segs))

normalize(path) ==
    IF path = <<"\\">> \/ path = <<"/">> THEN <<"/">>
    ELSE IF Len(path) <= 1 THEN path
    ELSE LET ns   == /\ Len(path) > 4
                     /\ path[4] = "\\"
                     /\ path[3] \in {"?", "."}
                     /\ path[1] = "\\" /\ path[2] = "\\"
             body == IF ns THEN SubSeq(path, 3, Len(path)) ELSE path
             segs == SplitSeps(body)
             kept == IF segs[Len(segs)] = <<>>
                     THEN SubSeq(segs, 1, Len(segs) - 1) ELSE segs
         IN  (IF ns THEN <<"/", "/">> ELSE <<>>) \o JoinSegs(kept)

----------------------------------------------------------------------------
(* picomatch, as imported at PathMatcher.ts:2, with its default options on *)
(* a POSIX platform, for globs made of "/", "*", "**", characters that     *)
(* stand for themselves (no ".", no other glob syntax) and leading "!"s;   *)
(* of three stars in a row, only the glob "***".                           *)
(* A glob is compiled to a regular expression, here a sequence of          *)
(* elements, and a path is tested against it.  Paths hold no line break.   *)

\* the elements of the compiled expression
Re(op) == [op |-> op, c |-> ""]
Lit(c) == [op |-> "chr", c |-> c]

\* the lookahead of a globstar, (?!(?:^|\/)\.): it takes the next character
\* unless a segment that begins with "." starts there
GlobstarMayTake(t, bos) ==
    /\ ~(bos /\ Head(t) = ".")
    /\ ~(Head(t) = "/" /\ Len(t) >= 2 /\ t[2] = ".")

\* regex.exec: the expression re matches the whole of t; bos says that no
\* character of the path has been taken yet
RECURSIVE exec(_, _, _)
exec(re, t, bos) ==
    IF re = <<>> THEN t = <<>>
    ELSE
    LET op   == Head(re).op
        rest == Tail(re)
    IN  CASE op = "chr" ->
                t # <<>> /\ Head(t) = Head(re).c /\ exec(rest, Tail(t), FALSE)
          [] op = "slash" ->
                t # <<>> /\ Head(t) = "/" /\ exec(rest, Tail(t), FALSE)
          [] op = "nodot" ->        \* (?!\.)
                (t = <<>> \/ Head(t) # ".") /\ exec(rest, t, bos)
          [] op = "onechar" ->      \* (?=.)
                t # <<>> /\ exec(rest, t, bos)
          [] op = "star" ->         \* [^/]*?
                \/ exec(rest, t, bos)
                \/ t # <<>> /\ Head(t) # "/" /\ exec(re, Tail(t), FALSE)
          [] op = "globstar" ->     \* (?:(?!(?:^|\/)\.).)*?
                \/ exec(rest, t, bos)
                \/ t # <<>> /\ GlobstarMayTake(t, bos) /\ exec(re, Tail(t), FALSE)
          [] op = "gsStart" ->      \* (?:^|globstar\/)
                \/ bos /\ exec(rest, t, bos)
                \/ exec(<<Re("globstar"), Re("slash")>> \o rest, t, bos)
          [] op = "gsMid" ->        \* (?:\/(?!\.)globstar\/|\/)
                \/ exec(<<Re("slash"), Re("nodot"), Re("globstar"), Re("slash")>>
                        \o rest, t, bos)
                \/ exec(<<Re("slash")>> \o rest, t, bos)
          [] op = "gsMidEnd" ->     \* (?:\/(?!\.)globstar\/|\/|$)
                \/ exec(<<Re("slash"), Re("nodot"), Re("globstar"), Re("slash")>>
                        \o rest, t, bos)
                \/ exec(<<Re("slash")>> \o rest, t, bos)
                \/ t = <<>> /\ exec(rest, t, bos)
          [] op = "gsEnd" ->        \* (?:\/(?!\.)globstar|$)
                \/ exec(<<Re("slash"), Re("nodot"), Re("globstar")>> \o rest, t, bos)
                \/ t = <<>> /\ exec(rest, t, bos)
          [] op = "maybeslash" ->   \* \/?
                \/ exec(rest, t, bos)
                \/ t # <<>> /\ Head(t) = "/" /\ exec(rest, Tail(t), FALSE)

TwoStars(q) == Len(q) >= 2 /\ q[1] = "*" /\ q[2] = "*"

\* after a globstar that opens a segment, the "/**"s that repeat it are
\* dropped
RECURSIVE StripGlobstars(_)
StripGlobstars(r) ==
    IF /\ Len(r) >= 3
       /\ r[1] = "/" /\ r[2] = "*" /\ r[3] = "*"
       /\ (Len(r) = 3 \/ r[4] = "/")
    THEN StripGlobstars(SubSeq(r, 4, Len(r)))
    ELSE r

\* push: a globstar followed by anything but a "/" is turned back into a
\* star
StarOrGlobstar(rest) ==
    IF rest = <<>> \/ Head(rest) = "/" THEN "globstar" ELSE "star"

\* parse: the expression for the glob body p, read left to right.  ty is
\* the types of the tokens read so far ("bos" first), atStart says that p
\* opens the glob as picomatch counts it (state.index = state.start).
RECURSIVE parse(_, _, _)
parse(p, ty, atStart) ==
    LET prev == ty[Len(ty)]
    IN
    IF p = <<>> THEN
        \* a glob that ends with a star lets a "/" follow
        IF prev = "star" THEN <<Re("maybeslash")>> ELSE <<>>
    ELSE IF Head(p) = "/" /\ TwoStars(Tail(p)) THEN
        LET rest      == StripGlobstars(SubSeq(p, 4, Len(p)))
            afterStar == prev \in {"star", "globstar"}
        IN  IF prev # "bos" /\ ~afterStar /\ rest = <<>> THEN
                \* "x/**" closing the glob: nothing at all, or "/" and more
                <<Re("gsEnd")>>
            ELSE IF prev # "bos" /\ rest # <<>> /\ Head(rest) = "/" THEN
                \* "x/**/": one "/", or segments between two
                <<Re(IF Len(rest) >= 2 THEN "gsMidEnd" ELSE "gsMid")>>
                \o parse(Tail(rest), ty \o <<"slash", "globstar", "slash">>, FALSE)
            ELSE
                <<Re("slash"), Re("nodot"), Re(StarOrGlobstar(rest))>>
                \o parse(rest, ty \o <<"slash", StarOrGlobstar(rest)>>, FALSE)
    ELSE IF Head(p) = "/" THEN
        <<Re("slash")>> \o parse(Tail(p), ty \o <<"slash">>, FALSE)
    ELSE IF TwoStars(p) THEN
        IF prev \notin {"bos", "slash"} THEN
            \* "**" inside a segment is a star
            <<Re("star")>>
            \o parse(SubSeq(p, 3, Len(p)), ty \o <<"star", "star">>, FALSE)
        ELSE
        LET rest == StripGlobstars(SubSeq(p, 3, Len(p)))
        IN  IF prev = "bos" /\ rest = <<>> THEN
                <<Re("globstar")>>
            ELSE IF prev = "bos" /\ Head(rest) = "/" THEN
                <<Re("gsStart")>>
                \o parse(Tail(rest), ty \o <<"globstar", "slash">>, FALSE)
            ELSE
                (IF atStart \/ prev = "slash" THEN <<Re("nodot")>> ELSE <<>>)
                \o <<Re(StarOrGlobstar(rest))>>
                \o parse(rest, ty \o <<StarOrGlobstar(rest)>>, FALSE)
    ELSE IF Head(p) = "*" THEN
        \* a star that opens a segment takes no leading "." and needs a
        \* character to follow
        (IF atStart \/ prev = "slash"
         THEN <<Re("nodot"), Re("onechar")>> ELSE <<>>)
        \o <<Re("star")>>
        \o parse(Tail(p), ty \o <<"star">>, FALSE)
    ELSE
        <<Lit(Head(p))>> \o parse(Tail(p), ty \o <<"text">>, FALSE)

\* parse.fastpaths, where it differs from parse: "*/*" is compiled without
\* the demand for a character under its first star
fastpaths(g) ==
    IF g = <<"*", "/", "*">>
    THEN <<Re("nodot"), Re("star"), Re("slash"), Re("onechar"), Re("nodot"),
           Re("star"), Re("maybeslash")>>
    ELSE <<>>

\* negate: the leading "!"s; an odd number of them negates the glob
RECURSIVE Negations(_)
Negations(g) ==
    IF g # <<>> /\ Head(g) = "!" THEN 1 + Negations(Tail(g)) ELSE 0

\* parse, REPLACEMENTS: the globs rewritten as a whole before they are read
REPLACEMENTS(g) ==
    IF g = <<"*", "*", "*">> THEN <<"*">>
    ELSE IF g \in { <<"*", "*", "/", "*", "*">>,
                    <<"*", "*", "/", "*", "*", "/", "*", "*">> } THEN <<"*", "*">>
    ELSE g

\* parse, its shortcut: a glob that opens with neither "*" nor "!" and has
\* no "/" is rewritten in place
UsesShortcut(g) ==
    /\ g # <<>>
    /\ Head(g) \notin {"*", "!"}
    /\ \A k \in 1..Len(g) : g[k] # "/"

RECURSIVE DropStars(_)
DropStars(g) ==
    IF g # <<>> /\ Head(g) = "*" THEN DropStars(Tail(g)) ELSE g

\* the shortcut's input.replace: a run of stars becomes one star, the other
\* characters stand for themselves, and no "/" may follow
RECURSIVE Shortcut(_)
Shortcut(g) ==
    IF g = <<>> THEN <<>>
    ELSE IF Head(g) = "*" THEN <<Re("star")>> \o Shortcut(DropStars(g))
    ELSE <<Lit(Head(g))>> \o Shortcut(Tail(g))

\* makeRe: the expression of glob g.  After an even number of "!"s the
\* body does not count as opening the glob.
makeRe(g) ==
    LET r == REPLACEMENTS(g)
        n == Negations(r)
    IN  IF fastpaths(r) # <<>> THEN fastpaths(r)
        ELSE IF UsesShortcut(r) THEN Shortcut(r)
        ELSE parse(SubSeq(r, n + 1, Len(r)), <<"bos">>, n = 0 \/ n % 2 = 1)

\* picomatch(glob) throws TypeError for the empty string
CompileThrows(globs) == \E k \in 1..Len(globs) : globs[k] = <<>>

\* picomatch(glob)(t), for one glob: never the empty path, always the path
\* equal to the glob, else the expression, negated or not
isMatch(g, t) ==
    IF t = <<>> THEN FALSE
    ELSE IF t = g THEN TRUE
    ELSE (Negations(g) % 2 = 1) # exec(makeRe(g), t, TRUE)

\* picomatch(globs)(t), for an array of globs: true if any glob matches
picomatch(globs, t) == \E k \in 1..Len(globs) : isMatch(globs[k], t)

----------------------------------------------------------------------------
(* Target patterns (src/src/types.d.ts as imported at PathMatcher.ts:1).   *)
(* A BasicTargetPattern is [str |-> characters]; an AdvancedTargetPattern  *)
(* is [basePatterns |-> pattern list].  Its advancedMatcher is the         *)
(* caller's code: the environment decides how each call of it ends.        *)

IsString(p) == "str" \in DOMAIN p

sortPatterns(pl) ==
    LET np(p)          == normalize(p.str)
        IsInclusion(p) == IsString(p) /\ ~(np(p) # <<>> /\ Head(np(p)) = "!")
        IsExclusion(p) == IsString(p) /\ (np(p) # <<>> /\ Head(np(p)) = "!")
        IsAdvanced(p)  == ~IsString(p)
        sliced(p)      == Tail(np(p))
        incl           == SelectSeq(pl, IsInclusion)
        excl           == SelectSeq(pl, IsExclusion)
    IN  [inclusionPatterns |-> [k \in 1..Len(incl) |-> np(incl[k])],
         exclusionPatterns |-> [k \in 1..Len(excl) |-> sliced(excl[k])],
         advancedPatterns  |-> SelectSeq(pl, IsAdvanced)]

\* what a call that threw leaves instead of a matching function
TypeError == [threw |-> "TypeError"]

Threw(m) == "threw" \in DOMAIN m

\* generateMatchingFunction (lines 25-31) and generateAdvancedMatcher
\* (lines 88-89): what the returned closure holds.  The buckets are sorted,
\* the globs compiled (lines 28-29) and the advanced matchers built (line
\* 30) once, at construction; a glob that does not compile, here or in a
\* nested list, makes the call throw.
RECURSIVE generateMatchingFunction(_)
generateMatchingFunction(pl) ==
    LET s == sortPatterns(pl)
        generateAdvancedMatcher(ap) ==
            [baseMatcher |-> generateMatchingFunction(ap.basePatterns)]
        advancedMatchers ==
            [k \in 1..Len(s.advancedPatterns) |->
                generateAdvancedMatcher(s.advancedPatterns[k])]
    IN  IF \/ CompileThrows(s.inclusionPatterns)
           \/ CompileThrows(s.exclusionPatterns)
           \/ \E k \in 1..Len(advancedMatchers) :
                 Threw(advancedMatchers[k].baseMatcher)
        THEN TypeError
        ELSE [inclusionPatterns |-> s.inclusionPatterns,
              exclusionPatterns |-> s.exclusionPatterns,
              advancedMatchers  |-> advancedMatchers]

\* A matcher node is the sequence of positions, each in the advancedMatchers
\* of the matching function before it, that leads from this.matcher to a
\* nested one: <<>> is this.matcher, <<k>> is the baseMatcher of its k-th
\* advanced matcher, and also names that advanced matcher itself.
RECURSIVE MatcherAt(_, _)
MatcherAt(m, n) ==
    IF n = <<>> THEN m
    ELSE MatcherAt(m.advancedMatchers[Head(n)].baseMatcher, Tail(n))

RECURSIVE Nodes(_)
Nodes(m) ==
    {<<>>} \cup UNION { { <<k>> \o n : n \in Nodes(m.advancedMatchers[k].baseMatcher) }
                        : k \in 1..Len(m.advancedMatchers) }

Parent(n) == SubSeq(n, 1, Len(n) - 1)

AdvNodes(m) == Nodes(m) \ {<<>>}

----------------------------------------------------------------------------
(* The matching function of generateMatchingFunction, up to its await.     *)

\* SyncPhase with the negation of the exclusion test lost
SyncPhaseNoNegation(m, t) ==
    IF ~(Len(m.exclusionPatterns) = 0 \/ picomatch(m.exclusionPatterns, t))
    THEN "false"
    ELSE IF \/ (Len(m.inclusionPatterns) = 0 /\ Len(m.advancedMatchers) = 0)
            \/ picomatch(m.inclusionPatterns, t)
    THEN "true"
    ELSE "pending"

\* SyncPhase with the inclusion test made before the exclusion test
SyncPhaseInclusionFirst(m, t) ==
    IF picomatch(m.inclusionPatterns, t) THEN "true"
    ELSE IF ~(Len(m.exclusionPatterns) = 0 \/ ~picomatch(m.exclusionPatterns, t))
    THEN "false"
    ELSE IF Len(m.inclusionPatterns) = 0 /\ Len(m.advancedMatchers) = 0
    THEN "true"
    ELSE "pending"

\* SyncPhase without the clause for a list with neither inclusion nor
\* advanced patterns
SyncPhaseNoDefault(m, t) ==
    IF ~(Len(m.exclusionPatterns) = 0 \/ ~picomatch(m.exclusionPatterns, t))
    THEN "false"
    ELSE IF picomatch(m.inclusionPatterns, t)
    THEN "true"
    ELSE "pending"

\* lines 39-41: "false"/"true" when the boolean chain decides before the
\* await of line 42 is reached, "pending" when it reaches it
SyncPhase(m, t) ==
    IF ~(Len(m.exclusionPatterns) = 0 \/ ~picomatch(m.exclusionPatterns, t))
    THEN "false"
    ELSE IF \/ (Len(m.inclusionPatterns) = 0 /\ Len(m.advancedMatchers) = 0)
            \/ picomatch(m.inclusionPatterns, t)
    THEN "true"
    ELSE "pending"

\* Issued with the advanced matchers called one after the other: only the
\* first of each list is called by the query's synchronous run
RECURSIVE IssuedSequential(_, _, _)
IssuedSequential(m, n, t) ==
    \/ n = <<>>
    \/ /\ IssuedSequential(m, Parent(n), t)
       /\ SyncPhase(MatcherAt(m, Parent(n)), t) = "pending"
       /\ n[Len(n)] = 1

\* Issued with the advanced matchers called before the globs are tested
IssuedAlways(m, n, t) == TRUE

\* Node n's functions are called for path t, within the synchronous run of
\* the query, iff every matching function above it reached line 42.
RECURSIVE Issued(_, _, _)
Issued(m, n, t) ==
    \/ n = <<>>
    \/ /\ Issued(m, Parent(n), t)
       /\ SyncPhase(MatcherAt(m, Parent(n)), t) = "pending"

\* AfterBase with the predicate asked whatever the base patterns decided
AfterBaseNoShortCircuit(b) ==
    CASE b = "true"   -> "call"
      [] b = "false"  -> "call"
      [] b = "failed" -> "failed"

\* line 92, once baseMatcher(t) settled with b: what the advanced matcher does
AfterBase(b) ==
    CASE b = "true"   -> "call"     \* && evaluates pattern.advancedMatcher(t)
      [] b = "false"  -> "false"    \* && short-circuits
      [] b = "failed" -> "failed"   \* the await throws

\* AllState with a rejection caught and taken for false
AllStateSwallow(sts) ==
    IF sts \subseteq {"true", "false", "failed"} THEN "done" ELSE "pending"

\* AllState with the join ending at the first true
AllStateFirstTrue(sts) ==
    IF "failed" \in sts THEN "failed"
    ELSE IF "true" \in sts \/ sts \subseteq {"true", "false"} THEN "done"
    ELSE "pending"

\* line 42: Promise.all over the advanced matchers' promises, given their
\* states: rejected with the first rejection, fulfilled when all are
AllState(sts) ==
    IF "failed" \in sts THEN "failed"
    ELSE IF sts \subseteq {"true", "false"} THEN "done"
    ELSE "pending"

\* line 42: (await Promise.all(...)).includes(true)
IncludesTrue(sts) == IF "true" \in sts THEN "true" ELSE "false"

Settled(st) == st \in {"true", "false", "failed"}

----------------------------------------------------------------------------
(* The inputs: the pattern lists a matcher is built from and the paths it  *)
(* is asked about.                                                         *)

Str(chars) == [str |-> chars]

\* [], ['**\b'], ['a/**', '!a/*'], ['!!b', '**/b'],
\* ['!a/*', '!**/a', '**\b']
SimpleLists ==
    { << >>,
      << Str(<<"*", "*", "\\", "b">>) >>,
      << Str(<<"a", "/", "*", "*">>), Str(<<"!", "a", "/", "*">>) >>,
      << Str(<<"!", "!", "b">>), Str(<<"*", "*", "/", "b">>) >>,
      << Str(<<"!", "a", "/", "*">>), Str(<<"!", "*", "*", "/", "a">>),
         Str(<<"*", "*", "\\", "b">>) >> }

\* {basePatterns: ['**/b']},
\* {basePatterns: ['!**/a', 'a/**', {basePatterns: []}]}
AdvancedPool ==
    { [basePatterns |-> << Str(<<"*", "*", "/", "b">>) >>],
      [basePatterns |-> << Str(<<"!", "*", "*", "/", "a">>),
                           Str(<<"a", "/", "*", "*">>),
                           [basePatterns |-> << >>] >>] }

SeqsUpTo(S, n) == UNION { [1..k -> S] : k \in 0..n }

\* lists with a glob that does not compile: ['!'], whose exclusion glob is
\* the empty string, and [{basePatterns: ['']}]
FailingLists ==
    { << Str(<<"!">>) >>,
      << [basePatterns |-> << Str(<<>>) >>] >> }

\* the lists a matcher is built from: strings and advanced patterns, the
\* strings before the advanced patterns or after them
PatternLists ==
    FailingLists
    \cup UNION { { s \o a, a \o s } : s \in SimpleLists,
                                      a \in SeqsUpTo(AdvancedPool, MaxAdvanced) }

\* 'b', 'a\b/', 'b//a'
PathPool ==
    { <<"b">>, <<"a", "\\", "b", "/">>, <<"b", "/", "/", "a">> }

\* the batches asked about: distinct paths of the pool, in any order
Batches ==
    { tg \in SeqsUpTo(PathPool, MaxBatch) :
        \A i, j \in 1..Len(tg) : tg[i] = tg[j] => i = j }

----------------------------------------------------------------------------
(* The state machine.                                                      *)

\* new PathMatcher(patterns), lines 20-22: the object keeps the matching
\* function alone; no query has been made.  When generateMatchingFunction
\* threw, the constructor threw and there is no object to query.
Init ==
    /\ \E patterns \in PatternLists :
          matcher = generateMatchingFunction(patterns)
    /\ callKind = "none"
    /\ targets = <<>>
    /\ listSt = <<>>
    /\ advSt = <<>>
    /\ predCalls = <<>>
    /\ result = [state |-> "none", value |-> "none"]

\* The synchronous run of a query over the paths tg: this.matcher is called
\* on every normalised path (lines 102, 119), each call runs lines 39-42 up
\* to the await, calling every advanced matcher, which calls its
\* baseMatcher and awaits it (line 92).
Start(tg) ==
    /\ ~Threw(matcher)
    /\ targets' = tg
    /\ listSt' = [x \in (1..Len(tg)) \X Nodes(matcher) |->
                    IF Issued(matcher, x[2], normalize(tg[x[1]]))
                    THEN SyncPhase(MatcherAt(matcher, x[2]), normalize(tg[x[1]]))
                    ELSE "idle"]
    /\ advSt' = [x \in (1..Len(tg)) \X AdvNodes(matcher) |->
                    IF Issued(matcher, x[2], normalize(tg[x[1]]))
                    THEN "awaitBase" ELSE "idle"]
    /\ predCalls' = [x \in (1..Len(tg)) \X AdvNodes(matcher) |-> "none"]
    /\ Cardinality({ x \in DOMAIN advSt' : advSt'[x] # "idle" }) <= MaxEvals
    /\ result' = [state |-> "pending", value |-> "none"]
    /\ UNCHANGED <<matcher>>

\* lines 118-120
pathMatchesPatterns(target) ==
    /\ callKind = "none"
    /\ callKind' = "single"
    /\ Start(<<target>>)

\* lines 101-102
filterPathsByPatterns(tg) ==
    /\ callKind = "none"
    /\ callKind' = "filter"
    /\ Start(tg)

\* line 92: the advanced matcher of node n resumes from `await baseMatcher(t)`
ResumeBase(i, n) ==
    /\ advSt[i, n] = "awaitBase"
    /\ Settled(listSt[i, n])
    /\ LET a == AfterBase(listSt[i, n])
       IN  IF a = "call"
           THEN /\ advSt' = [advSt EXCEPT ![i, n] = "awaitPred"]
                /\ predCalls' = [predCalls EXCEPT ![i, n] = "pending"]
           ELSE /\ advSt' = [advSt EXCEPT ![i, n] = a]
                /\ UNCHANGED predCalls
    /\ UNCHANGED <<matcher, callKind, targets, listSt, result>>

\* The caller's advancedMatcher(t) ends: its promise resolves true or
\* false, or rejects.  A predicate that never ends is one for which this
\* never happens.
PredSettle(i, n, r) ==
    /\ predCalls[i, n] = "pending"
    /\ predCalls' = [predCalls EXCEPT ![i, n] = r]
    /\ UNCHANGED <<matcher, callKind, targets, listSt, advSt, result>>

\* line 92: the advanced matcher of node n resumes from
\* `await pattern.advancedMatcher(t)` and returns what the predicate gave,
\* or throws what it threw
ResumePred(i, n) ==
    /\ advSt[i, n] = "awaitPred"
    /\ Settled(predCalls[i, n])
    /\ advSt' = [advSt EXCEPT ![i, n] = predCalls[i, n]]
    /\ UNCHANGED <<matcher, callKind, targets, listSt, predCalls, result>>

\* the advanced matchers that node n's matching function mapped over for
\* path i (line 42)
Children(i, n) ==
    { x \in DOMAIN advSt : x[1] = i /\ Len(x[2]) = Len(n) + 1 /\ Parent(x[2]) = n }

\* line 42: the matching function of node n resumes from `await Promise.all`
ResumeAll(i, n) ==
    /\ listSt[i, n] = "pending"
    /\ LET sts == { advSt[x] : x \in Children(i, n) }
       IN  /\ AllState(sts) # "pending"
           /\ listSt' = [listSt EXCEPT ![i, n] =
                            IF AllState(sts) = "failed" THEN "failed"
                            ELSE IncludesTrue(sts)]
    /\ UNCHANGED <<matcher, callKind, targets, advSt, predCalls, result>>

\* FilterTargets pushing the normalised path
RECURSIVE FilterTargetsNormalized(_, _, _)
FilterTargetsNormalized(tg, res, idx) ==
    IF idx > Len(tg) THEN <<>>
    ELSE (IF res[idx] THEN <<normalize(tg[idx])>> ELSE <<>>)
         \o FilterTargetsNormalized(tg, res, idx + 1)

\* lines 104-109: forEach over matchResults, pushing targets[idx]
RECURSIVE FilterTargets(_, _, _)
FilterTargets(tg, res, idx) ==
    IF idx > Len(tg) THEN <<>>
    ELSE (IF res[idx] THEN <<tg[idx]>> ELSE <<>>) \o FilterTargets(tg, res, idx + 1)

\* Gather with each path's failure kept to that path
GatherIsolating ==
    /\ callKind = "filter"
    /\ result.state = "pending"
    /\ \A i \in 1..Len(targets) : Settled(listSt[i, <<>>])
    /\ result' = [state |-> "resolved",
                  value |-> FilterTargets(targets,
                               [i \in 1..Len(targets) |-> listSt[i, <<>>] = "true"], 1)]
    /\ UNCHANGED <<matcher, callKind, targets, listSt, advSt, predCalls>>

\* lines 102-110: filterPathsByPatterns resumes from `await Promise.all`
Gather ==
    /\ callKind = "filter"
    /\ result.state = "pending"
    /\ LET sts == { listSt[i, <<>>] : i \in 1..Len(targets) }
           matchResults == [i \in 1..Len(targets) |-> listSt[i, <<>>] = "true"]
       IN  /\ AllState(sts) # "pending"
           /\ result' = IF AllState(sts) = "failed"
                        THEN [state |-> "rejected", value |-> "none"]
                        ELSE [state |-> "resolved",
                              value |-> FilterTargets(targets, matchResults, 1)]
    /\ UNCHANGED <<matcher, callKind, targets, listSt, advSt, predCalls>>

\* line 119: the promise of pathMatchesPatterns follows this.matcher's
Return ==
    /\ callKind = "single"
    /\ result.state = "pending"
    /\ Settled(listSt[1, <<>>])
    /\ result' = IF listSt[1, <<>>] = "failed"
                 THEN [state |-> "rejected", value |-> "none"]
                 ELSE [state |-> "resolved", value |-> (listSt[1, <<>>] = "true")]
    /\ UNCHANGED <<matcher, callKind, targets, listSt, advSt, predCalls>>

Next ==
    \/ \E target \in PathPool : pathMatchesPatterns(target)
    \/ \E tg \in Batches : filterPathsByPatterns(tg)
    \/ \E x \in DOMAIN advSt : ResumeBase(x[1], x[2])
    \/ \E x \in DOMAIN advSt, r \in {"true", "false", "failed"} :
          PredSettle(x[1], x[2], r)
    \/ \E x \in DOMAIN advSt : ResumePred(x[1], x[2])
    \/ \E x \in DOMAIN listSt : ResumeAll(x[1], x[2])
    \/ Gather
    \/ Return

Spec == Init /\ [][Next]_vars

\* the resumptions of awaiting functions: the steps the event loop takes on
\* its own, once the promise awaited has settled
Resume ==
    \/ \E x \in DOMAIN advSt : ResumeBase(x[1], x[2])
    \/ \E x \in DOMAIN advSt : ResumePred(x[1], x[2])
    \/ \E x \in DOMAIN listSt : ResumeAll(x[1], x[2])
    \/ Gather
    \/ Return

\* The event loop runs every continuation that is ready.  Nothing makes a
\* caller-supplied predicate end: PredSettle is under no fairness.
FairSpec == Spec /\ WF_vars(Resume)

----------------------------------------------------------------------------
(* What the claims speak of.                                               *)

Paths == 1..Len(targets)

\* the globs a matching function holds, nested ones included
RECURSIVE GlobsOf(_)
GlobsOf(m) ==
    IF Threw(m) THEN {} ELSE
    { m.inclusionPatterns[k] : k \in 1..Len(m.inclusionPatterns) }
    \cup { m.exclusionPatterns[k] : k \in 1..Len(m.exclusionPatterns) }
    \cup UNION { GlobsOf(m.advancedMatchers[k].baseMatcher)
                 : k \in 1..Len(m.advancedMatchers) }

\* which glob matches which normalised path, and the normalised form of each
\* path, tabulated once over the inputs
MatchTable ==
    [ x \in (UNION { GlobsOf(generateMatchingFunction(pl)) : pl \in PatternLists })
            \X { normalize(p) : p \in PathPool }
      |-> isMatch(x[1], x[2]) ]

NormalizeTable == [ p \in PathPool |-> normalize(p) ]

\* the normalised form of the i-th path of the query
NormalizedTarget(i) == NormalizeTable[targets[i]]

\* "the exclusion bucket is empty or p matches no exclusion glob"
ExclusionClause(m, t) ==
    \/ m.exclusionPatterns = <<>>
    \/ \A k \in 1..Len(m.exclusionPatterns) : ~MatchTable[m.exclusionPatterns[k], t]

\* "p matches some inclusion glob"
InclusionOr(m, t) ==
    \E k \in 1..Len(m.inclusionPatterns) : MatchTable[m.inclusionPatterns[k], t]

\* The composition rule, applied to the pattern list m of node n and the
\* normalised path t of index i, with the results the predicates gave: an
\* advanced pattern decides true iff its predicate returned true and its
\* base patterns decide true, by this rule.
RECURSIVE RuleHolds(_, _, _, _)
RuleHolds(m, t, i, n) ==
    /\ ExclusionClause(m, t)
    /\ \/ (m.inclusionPatterns = <<>> /\ m.advancedMatchers = <<>>)
       \/ InclusionOr(m, t)
       \/ \E k \in 1..Len(m.advancedMatchers) :
             /\ predCalls[i, n \o <<k>>] = "true"
             /\ RuleHolds(m.advancedMatchers[k].baseMatcher, t, i, n \o <<k>>)

RuleDecision(n, i) == RuleHolds(MatcherAt(matcher, n), NormalizedTarget(i), i, n)

Called == callKind # "none"

\* the list m gets to its advanced patterns for path t: neither its
\* exclusion globs nor its inclusion globs settle the matter
ReachesAdvanced(m, t) ==
    /\ ExclusionClause(m, t)
    /\ ~(m.inclusionPatterns = <<>> /\ m.advancedMatchers = <<>>)
    /\ ~InclusionOr(m, t)

\* every list around the advanced pattern of node n gets to its advanced
\* patterns for path i
RECURSIVE Reached(_, _)
Reached(i, n) ==
    \/ n = <<>>
    \/ /\ Reached(i, Parent(n))
       /\ ReachesAdvanced(MatcherAt(matcher, Parent(n)), NormalizedTarget(i))

\* no continuation is ready: the query moves again only if a predicate ends
Quiet == ~ENABLED Resume

PredicateFailed(i) == \E x \in DOMAIN predCalls : x[1] = i /\ predCalls[x] = "failed"

PredicatePending(i) == \E x \in DOMAIN predCalls : x[1] = i /\ predCalls[x] = "pending"

----------------------------------------------------------------------------
(* C1: when the matching function resolves for a path, its value is        *)
(* exactly (exclusion bucket empty or no exclusion glob matches) and       *)
(* ((inclusion and advanced buckets empty) or some inclusion glob matches  *)
(* or some advanced decision is true); it fails only if a predicate it     *)
(* invoked failed; pathMatchesPatterns resolves to that value.             *)
C1_DecisionRule ==
    /\ \A i \in Paths :
          /\ listSt[i, <<>>] \in {"true", "false"}
                => ((listSt[i, <<>>] = "true") = RuleDecision(<<>>, i))
          /\ listSt[i, <<>>] = "failed" => PredicateFailed(i)
    /\ (callKind = "single" /\ result.state = "resolved")
          => result.value = RuleDecision(<<>>, 1)

\* a path kept by an advanced pattern alone, past an exclusion glob and an
\* inclusion glob that both miss it
C1_Witness ==
    /\ callKind = "single" /\ result.state = "resolved" /\ result.value = TRUE
    /\ matcher.exclusionPatterns # <<>>
    /\ matcher.inclusionPatterns # <<>>
    /\ ~InclusionOr(matcher, NormalizedTarget(1))
    /\ \E x \in DOMAIN predCalls : predCalls[x] = "true"

(* C2: a path that matches some top-level exclusion glob is rejected at    *)
(* once, whatever the inclusion globs match and without any advanced       *)
(* predicate being asked: the query resolves to false, and a batch never   *)
(* returns the path.                                                       *)
C2_ExclusionDominates ==
    \A i \in Paths :
        (\E k \in 1..Len(matcher.exclusionPatterns) :
              MatchTable[matcher.exclusionPatterns[k], NormalizedTarget(i)])
        => /\ listSt[i, <<>>] = "false"
           /\ \A x \in DOMAIN predCalls : x[1] = i => predCalls[x] = "none"
           /\ callKind = "single" =>
                 /\ result.state \in {"pending", "resolved"}
                 /\ result.state = "resolved" => result.value = FALSE
           /\ (callKind = "filter" /\ result.state = "resolved") =>
                 \A j \in 1..Len(result.value) : result.value[j] # targets[i]

\* an excluded path that an inclusion glob matches, under a matcher that
\* also has advanced patterns
C2_Witness ==
    /\ callKind = "single" /\ result.state = "resolved" /\ result.value = FALSE
    /\ ~ExclusionClause(matcher, NormalizedTarget(1))
    /\ InclusionOr(matcher, NormalizedTarget(1))
    /\ matcher.advancedMatchers # <<>>

(* C3, as stated: with empty exclusion and advanced buckets (the empty     *)
(* pattern list included) pathMatchesPatterns equals the inclusion OR      *)
(* test, which is false when there is no inclusion glob.                   *)
C3_AsStated ==
    ( /\ callKind = "single" /\ result.state = "resolved"
      /\ matcher.exclusionPatterns = <<>> /\ matcher.advancedMatchers = <<>> )
    => result.value = InclusionOr(matcher, NormalizedTarget(1))

(* C3, amended: with empty exclusion and advanced buckets and at least one *)
(* inclusion glob, pathMatchesPatterns equals the inclusion OR test; with  *)
(* the empty pattern list it resolves to true for every path.              *)
C3_InclusionOnly ==
    ( /\ callKind = "single" /\ result.state = "resolved"
      /\ matcher.exclusionPatterns = <<>> /\ matcher.advancedMatchers = <<>> )
    => result.value = IF matcher.inclusionPatterns = <<>> THEN TRUE
                      ELSE InclusionOr(matcher, NormalizedTarget(1))

\* an inclusion-only matcher rejecting a path no glob matches
C3_Witness ==
    /\ callKind = "single" /\ result.state = "resolved" /\ result.value = FALSE
    /\ matcher.exclusionPatterns = <<>> /\ matcher.advancedMatchers = <<>>
    /\ matcher.inclusionPatterns # <<>>

(* C4: at every depth, an advanced pattern's decision is the AND of its    *)
(* base patterns' decision, made by the composition rule, and of its       *)
(* predicate's result: rejected by the base patterns, it is rejected and   *)
(* the predicate's answer plays no part; accepted by them, it is accepted  *)
(* iff the predicate returned true.                                        *)
C4_AdvancedIsAnd ==
    \A x \in DOMAIN advSt :
        /\ listSt[x] \in {"true", "false"}
              => ((listSt[x] = "true") = RuleDecision(x[2], x[1]))
        /\ (listSt[x] = "false" /\ advSt[x] # "awaitBase") => advSt[x] = "false"
        /\ (listSt[x] = "true" /\ advSt[x] \in {"true", "false"})
              => advSt[x] = predCalls[x]
        /\ advSt[x] \in {"true", "false"}
              => ((advSt[x] = "true") = (listSt[x] = "true" /\ predCalls[x] = "true"))

\* a nested advanced pattern accepted at depth 2 while the advanced pattern
\* around it, its base patterns satisfied, is rejected by its own predicate
C4_Witness ==
    \E x \in DOMAIN advSt :
        /\ Len(x[2]) = 2 /\ advSt[x] = "true"
        /\ listSt[x[1], Parent(x[2])] = "true"
        /\ predCalls[x[1], Parent(x[2])] = "false"
        /\ advSt[x[1], Parent(x[2])] = "false"

(* C5: a batch resolves to the original strings, not their normalised     *)
(* forms, of exactly the paths the decision rule accepts, in the order of  *)
(* the input, whichever evaluation ended first.                            *)
C5_FilterKeepsOrder ==
    (callKind = "filter" /\ result.state = "resolved")
    => LET keep    == { i \in Paths : RuleDecision(<<>>, i) }
           nth(j)  == CHOOSE i \in keep : Cardinality({ k \in keep : k <= i }) = j
       IN  /\ Len(result.value) = Cardinality(keep)
           /\ \A j \in 1..Len(result.value) : result.value[j] = targets[nth(j)]
           /\ \A i \in Paths : (i \in keep) = (listSt[i, <<>>] = "true")

\* two paths kept through their predicates, the first returned in a form
\* that normalisation would change
C5_Witness ==
    /\ callKind = "filter" /\ result.state = "resolved"
    /\ Len(targets) = 2 /\ result.value = targets
    /\ targets[1] # NormalizedTarget(1)
    /\ targets[1] # targets[2]
    /\ \A i \in Paths : \E x \in DOMAIN predCalls : x[1] = i /\ predCalls[x] = "true"

(* C6: once an advanced predicate has failed for the path of a             *)
(* pathMatchesPatterns query, at any depth and whatever the other advanced *)
(* patterns returned, the query never resolves to true or false, and when  *)
(* no continuation is left to run it has ended in failure.                 *)
C6_FailurePropagates ==
    (callKind = "single" /\ PredicateFailed(1))
    => /\ listSt[1, <<>>] \in {"pending", "failed"}
       /\ result.state \in {"pending", "rejected"}
       /\ Quiet => result.state = "rejected"

\* a predicate failed at depth 2, a sibling advanced pattern returned true,
\* and the query was rejected
C6_Witness ==
    /\ callKind = "single" /\ result.state = "rejected"
    /\ \E x \in DOMAIN predCalls : Len(x[2]) = 2 /\ predCalls[x] = "failed"
    /\ \E x \in DOMAIN advSt : Len(x[2]) = 1 /\ advSt[x] = "true"

(* C7: once an advanced predicate has failed for one path of a batch, the  *)
(* batch never resolves to a list, and when no continuation is left to run *)
(* it has failed, the paths that matched notwithstanding.                  *)
C7_BatchFailsWhole ==
    (callKind = "filter" /\ \E i \in Paths : PredicateFailed(i))
    => /\ result.state \in {"pending", "rejected"}
       /\ result.value = "none"
       /\ Quiet => result.state = "rejected"

\* a batch rejected although the evaluation of its other path matched
C7_Witness ==
    /\ callKind = "filter" /\ result.state = "rejected"
    /\ \E i, j \in Paths : PredicateFailed(i) /\ listSt[j, <<>>] = "true"

(* C8, as stated: a query is complete, resolved or failed, only once every *)
(* advanced predicate it invoked has completed.                            *)
C8_AsStated ==
    result.state \in {"resolved", "rejected"}
    => \A i \in Paths : ~PredicatePending(i)

(* C8, amended: while an advanced predicate invoked for a path has not     *)
(* ended, the matching function has not resolved for that path and the     *)
(* query has not resolved; a query resolves only once every predicate it   *)
(* invoked has ended.  (It may fail before.)                               *)
C8_NoResultWhilePending ==
    /\ \A i \in Paths : PredicatePending(i) => listSt[i, <<>>] \in {"pending", "failed"}
    /\ result.state = "resolved" => \A i \in Paths : ~PredicatePending(i)

\* a query left waiting for a predicate that has not ended, nothing else
\* to run, although another advanced pattern already decided true
C8_Witness ==
    /\ Called /\ Quiet /\ result.state = "pending"
    /\ \E x, y \in DOMAIN advSt :
          /\ x[1] = y[1]
          /\ predCalls[x] = "pending"
          /\ advSt[y] = "true"

\* node y lies in the basePatterns of the advanced pattern of node x
NestedIn(y, x) ==
    /\ Len(y) > Len(x)
    /\ SubSeq(y, 1, Len(x)) = x

(* C9, as stated: the evaluations of all paths of a query and of all      *)
(* advanced patterns are started by the call itself, and a predicate that  *)
(* never ends delays the invocation of no other advanced pattern's         *)
(* predicate: every advanced matcher that was called gets, in the end, to  *)
(* its predicate or is rejected by its base patterns.                      *)
C9_AsStated ==
    /\ [](Called =>
            /\ \A i \in Paths : listSt[i, <<>>] # "idle"
            /\ \A x \in DOMAIN advSt :
                  (advSt[x] = "idle" \/ listSt[x] = "idle") => ~Reached(x[1], x[2]))
    /\ <>[](\A x \in DOMAIN advSt : advSt[x] # "awaitBase")

(* C9, amended: the evaluations of all paths of a query, and of all        *)
(* advanced patterns of a list that reaches its advanced patterns, are     *)
(* started by the call itself; a predicate that never ends delays the      *)
(* invocation of no predicate of another path or of a sibling pattern, but *)
(* it does delay, for ever, the predicate of every advanced pattern whose  *)
(* basePatterns it is nested in: in the end an advanced matcher still      *)
(* waits for its base decision only if that decision is pending on a       *)
(* predicate, nested in its basePatterns, that has not ended.              *)
C9_ScatterGather ==
    /\ [](Called =>
            /\ \A i \in Paths : listSt[i, <<>>] # "idle"
            /\ \A x \in DOMAIN advSt :
                  (advSt[x] = "idle" \/ listSt[x] = "idle") => ~Reached(x[1], x[2]))
    /\ <>[](\A x \in DOMAIN advSt :
               advSt[x] = "awaitBase"
               => /\ listSt[x] = "pending"
                  /\ \E y \in DOMAIN predCalls :
                        /\ y[1] = x[1]
                        /\ NestedIn(y[2], x[2])
                        /\ predCalls[y] = "pending")

\* two predicates in flight at once: the second was invoked while the
\* first had not ended
C9_Witness ==
    /\ \E x, y \in DOMAIN predCalls :
          x[1] # y[1] /\ predCalls[x] = "pending" /\ predCalls[y] = "pending"
    /\ \E x, y \in DOMAIN predCalls :
          x[1] = y[1] /\ x[2] # y[2] /\ Len(x[2]) = Len(y[2])
          /\ predCalls[x] = "pending" /\ predCalls[y] = "pending"

(* C10: an advanced predicate is invoked for a path only if the pattern    *)
(* list that holds its advanced pattern does not exclude the path, has no  *)
(* inclusion glob matching it, and the advanced pattern's own base         *)
(* patterns accept it.                                                     *)
C10_PredicateOnlyWhen ==
    \A x \in DOMAIN predCalls :
        predCalls[x] # "none"
        => LET pm == MatcherAt(matcher, Parent(x[2]))
               t  == NormalizedTarget(x[1])
           IN  /\ ExclusionClause(pm, t)
               /\ ~InclusionOr(pm, t)
               /\ RuleDecision(x[2], x[1])

\* in one query, a predicate invoked and answered for a path, and another
\* advanced pattern never evaluated for it because an inclusion glob of its
\* list matched
C10_Witness ==
    /\ result.state = "resolved"
    /\ \E x, y \in DOMAIN predCalls :
          /\ x[1] = y[1]
          /\ predCalls[x] \in {"true", "false"}
          /\ predCalls[y] = "none" /\ advSt[y] = "idle"
          /\ InclusionOr(MatcherAt(matcher, Parent(y[2])), NormalizedTarget(y[1]))

====
